---- MODULE Spec2Model ----
(***************************************************************************)
(* PhotoLab: the photo-to-participant pipeline.                            *)
(*   - App.jsx: page routing, projectData, processingResults               *)
(*   - OCRProcessing (unnamed/part_001:24-497): the processing view and    *)
(*     its stage                                                           *)
(*   - main.js 'process-photos': the worker process and its output         *)
(*   - Results (unnamed/part_001:518-1093): reconciliation and finalize    *)
(*   - main.js 'assign-photos-to-participant', 'save-ungrouped-photos'     *)
(***************************************************************************)
EXTENDS Integers, Sequences, FiniteSets, TLC

\* ---------------------------------------------------------------- bounds
MaxStarts == 2        \* processPhotos requests issued in one behaviour
MaxOut == 3           \* chunks of standard output a worker emits
MaxErr == 2           \* lines of standard error after which a worker writes no more
MaxParticipants == 1  \* roster sizes 0..MaxParticipants
MaxPhotos == 4        \* photos of an exhaustively drawn detection sequence
MaxPending == 1       \* assign / finalize calls awaiting their reply

\* ------------------------------------------------------------ vocabulary
Null == "null"
Runs == 1..MaxStarts
Pages == {"home", "processing", "results", "credentials"}

\* Pieces of worker output: ordinary log text, the two sentinels, and the
\* text of a payload JSON.parse accepts.  J1, J2 and J3 are results, JF is
\* a failure the worker reports itself ({success: false, error}), JN says
\* success but has no processing_summary.  The workers of the model print
\* J1, J2, JF or JN.
ResultPayloads == {"J1", "J2", "J3"}
PrintedResults == {"J1", "J2"}
Payloads == PrintedResults \cup {"JF", "JN"}
success(payload) == payload # "JF"
processing_summary(payload) == payload \in ResultPayloads
OutTokens == {"L", "==JSON_START==", "==JSON_END=="} \cup Payloads
ErrTokens == {"L"}
ErrChunks == {<<tok>> : tok \in ErrTokens}

\* Checkpoint lines of the worker.  On standard output a line carries a
\* stage marker; such a line can reach the handler cut in two inside the
\* marker.  On standard error the handler looks for phrases.
StdoutMarkers == {"[QR_DETECTION]", "[GROUPING]"}
MarkerHead == "[QR_DETE"
MarkerTail == "CTION]"
ProgressChunks ==
    {<<"L">>, <<MarkerHead>>, <<MarkerTail>>}
    \cup {<<m>> : m \in StdoutMarkers}
    \cup {<<"[QR_DETECTION]", "[GROUPING]">>}
ProgressErrChunks ==
    {<<a>> : a \in {"L", "Step 1:", "Step 2:", "QR detected"}}
    \cup {<<"Step 1:", "Step 2:">>, <<"Step 2:", "QR detected">>}
ExitCodes == {0, 1}

\* A data event delivers one piece, or a whole sentinel block at once.
PieceChunks == {<<tok>> : tok \in OutTokens}
BlockChunks ==
    {<<"L">>} \cup {<<"==JSON_START==", j, "==JSON_END==">> : j \in PrintedResults}

\* Photo records of the worker's payload.  Photos 1 and 2 have the same
\* file name in different folders; photos 3 and 4 carry a file_name only,
\* the same one.
Photos == {1, 2, 3, 4}
GroupKeys == {"g1", "g2"}

file_path(p) == CASE p = 1 -> "a/x.jpg" [] p = 2 -> "b/x.jpg" [] OTHER -> Null
file_name(p) == CASE p \in {3, 4} -> "y.jpg" [] OTHER -> "x.jpg"
modified_time(p) == Null

NoGroup == [present |-> FALSE, photos |-> <<>>]
Group(photos) == [present |-> TRUE, photos |-> photos]

\* photo_grouping of a payload: its groups and its ungrouped_photos.
photo_grouping(payload) ==
    CASE payload = "J1" ->
           [groups |-> [k \in GroupKeys |-> IF k = "g1" THEN Group(<<1, 2>>) ELSE Group(<<3>>)],
            ungrouped_photos |-> <<>>]
      [] payload = "J2" ->
           [groups |-> [k \in GroupKeys |-> IF k = "g1" THEN Group(<<3>>) ELSE NoGroup],
            ungrouped_photos |-> <<1, 2>>]
      [] payload = "J3" ->
           [groups |-> [k \in GroupKeys |-> IF k = "g1" THEN Group(<<3, 4>>) ELSE NoGroup],
            ungrouped_photos |-> <<>>]
      [] OTHER ->
           [groups |-> [k \in GroupKeys |-> NoGroup], ungrouped_photos |-> <<>>]

VARIABLES
    currentPage, showProjectManager, projectData, processingResults, navTimers,
    processingStage, isProcessing, error, pythonDepsStatus, depsPending, progress,
    runs, started, spawned,
    groupsState, ungroupedPhotos, editingGroupKey, selectedGroupPhotos,
    showManualGrouping, selectedUngroupedPhotos, targetParticipant, isFinalizing,
    assignCalls, finalizeCalls,
    engine

appVars == <<currentPage, showProjectManager, projectData, processingResults, navTimers>>
ocrVars == <<processingStage, isProcessing, error, pythonDepsStatus, depsPending, progress>>
mainVars == <<runs, started, spawned>>
editVars == <<groupsState, ungroupedPhotos, editingGroupKey, selectedGroupPhotos>>
manualVars == <<showManualGrouping, selectedUngroupedPhotos, targetParticipant>>
resVars == <<editVars, manualVars, isFinalizing>>
callVars == <<assignCalls, finalizeCalls>>
vars == <<appVars, ocrVars, mainVars, resVars, callVars, engine>>

\* ------------------------------------------------------------- App.jsx
\* The component the Layout shows: the project manager hides the page.
Visible(page, pm) == IF pm THEN "projects" ELSE page

\* processingResults: null, or the payload of the run that completed.
NoResults == [run |-> 0, payload |-> Null]

NoError == [error |-> Null, code |-> -1, details |-> <<>>]

NoReply ==
    [success |-> FALSE, error |-> Null, code |-> -1, details |-> <<>>,
     raw_output |-> <<>>, payload |-> Null]

IdleRun ==
    [phase |-> "idle", outputData |-> <<>>, errorData |-> <<>>, exitCode |-> -1,
     events |-> <<>>, reply |-> NoReply, mounted |-> FALSE]

\* A React state setter of an unmounted component does nothing: a call
\* whose component instance is gone keeps only its App-level effects.
Orphaned(calls) == [i \in 1..Len(calls) |-> [calls[i] EXCEPT !.mounted = FALSE]]
OrphanedRuns(rs) == [r \in Runs |-> [rs[r] EXCEPT !.mounted = FALSE]]

\* OCRProcessing's useState initialisers and its mount effect.
OcrMount ==
    /\ processingStage' = "setup"
    /\ isProcessing' = FALSE
    /\ error' = NoError
    /\ pythonDepsStatus' = Null
    /\ depsPending' = TRUE
    /\ progress' = 0

OcrUnmount ==
    /\ processingStage' = "none"
    /\ isProcessing' = FALSE
    /\ error' = NoError
    /\ pythonDepsStatus' = Null
    /\ depsPending' = FALSE
    /\ progress' = 0

\* Results' useState initialisers.
ResInitial ==
    /\ editingGroupKey' = Null
    /\ selectedGroupPhotos' = <<>>
    /\ showManualGrouping' = FALSE
    /\ selectedUngroupedPhotos' = <<>>
    /\ targetParticipant' = 0
    /\ isFinalizing' = FALSE

\* Results' effect on [processingResults]: the edited lists are set from
\* the result the App holds.
ResEffect(results) ==
    /\ groupsState' = photo_grouping(results.payload).groups
    /\ ungroupedPhotos' = photo_grouping(results.payload).ungrouped_photos

ResMount == ResInitial /\ ResEffect(processingResults)

ResUnmount == ResInitial /\ ResEffect(NoResults)

\* What a change of the shown component does to the page components.
Render(old, new) ==
    /\ IF new # old /\ new = "processing" THEN OcrMount /\ runs' = runs
       ELSE IF new # old /\ old = "processing" THEN OcrUnmount /\ runs' = OrphanedRuns(runs)
       ELSE UNCHANGED <<ocrVars, runs>>
    /\ IF new # old /\ new = "results" THEN ResMount /\ UNCHANGED callVars
       ELSE IF new # old /\ old = "results"
       THEN /\ ResUnmount
            /\ assignCalls' = Orphaned(assignCalls)
            /\ finalizeCalls' = Orphaned(finalizeCalls)
       ELSE UNCHANGED <<resVars, callVars>>

\* App.handleNavigation
NavigateTo(page) ==
    /\ IF page = "projects"
       THEN showProjectManager' = TRUE /\ UNCHANGED currentPage
       ELSE showProjectManager' = FALSE /\ currentPage' = page
    /\ Render(Visible(currentPage, showProjectManager),
              Visible(currentPage', showProjectManager'))

\* The navigation the operator can reach from what is on screen: the
\* sidebar of the Layout and the buttons of the shown page.
NavTargets ==
    LET v == Visible(currentPage, showProjectManager) IN
    {"home", "projects", "credentials"}
    \cup (IF v = "credentials" THEN {"processing"} ELSE {})
    \cup (IF v = "processing" /\ processingStage = "completed" THEN {"results"} ELSE {})
    \cup (IF v = "results" THEN {"processing"} ELSE {})

handleNavigation(page) ==
    /\ page \in NavTargets
    /\ NavigateTo(page)
    /\ UNCHANGED <<projectData, processingResults, navTimers, started, spawned>>
    /\ UNCHANGED engine

\* setTimeout(() => onNavigation('results'), 2000) of a completed run.
NavigationTimer ==
    /\ navTimers > 0
    /\ navTimers' = navTimers - 1
    /\ NavigateTo("results")
    /\ UNCHANGED <<projectData, processingResults, started, spawned>>
    /\ UNCHANGED engine

ProjectDatas ==
    [sourceFolder : BOOLEAN, participants : 0..MaxParticipants, createdFolderPath : BOOLEAN]

EmptyProject == [sourceFolder |-> FALSE, participants |-> 0, createdFolderPath |-> FALSE]

\* A project row of the database: it was saved by handleStartProject.
SavedProjects == {pd \in ProjectDatas : pd.participants > 0 /\ pd.createdFolderPath}

\* App.handleNewProject / App.handleLoadProject (sidebar, any page).
handleLoadProject(pd) ==
    /\ projectData' = pd
    /\ showProjectManager' = FALSE
    /\ currentPage' = "home"
    /\ Render(Visible(currentPage, showProjectManager), "home")
    /\ UNCHANGED <<processingResults, navTimers, started, spawned>>
    /\ UNCHANGED engine

\* Home: the folder selector and the CSV uploader.
updateProjectData(src, n) ==
    /\ Visible(currentPage, showProjectManager) = "home"
    /\ projectData' = [projectData EXCEPT !.sourceFolder = src, !.participants = n]
    /\ UNCHANGED <<currentPage, showProjectManager, processingResults, navTimers>>
    /\ UNCHANGED <<ocrVars, mainVars, resVars, callVars>>
    /\ UNCHANGED engine

\* Home.handleStartProject: only a ready project creates its folders and
\* goes on to the processing page.
handleStartProject ==
    /\ Visible(currentPage, showProjectManager) = "home"
    /\ projectData.sourceFolder /\ projectData.participants > 0
    /\ projectData' = [projectData EXCEPT !.createdFolderPath = TRUE]
    /\ NavigateTo("processing")
    /\ UNCHANGED <<processingResults, navTimers, started, spawned>>
    /\ UNCHANGED engine

\* ------------------------------------------------- OCRProcessing (view)
checkPythonDependencies(ok) ==
    /\ depsPending
    /\ depsPending' = FALSE
    /\ pythonDepsStatus' = IF ok THEN "ok" ELSE "missing"
    /\ error' = IF ok THEN error
                ELSE [error |-> "Python dependencies missing", code |-> -1, details |-> <<>>]
    /\ UNCHANGED <<processingStage, isProcessing, progress>>
    /\ UNCHANGED <<appVars, mainVars, resVars, callVars>>
    /\ UNCHANGED engine

\* startProcessing's guard on projectData (part_001:62); the roster is an
\* array in every projectData the App builds, never null.
NoParticipants == -1
MissingProjectData(pd) == ~pd.sourceFolder \/ pd.participants = NoParticipants

\* The start button is part of the setup stage and is disabled until the
\* dependency check succeeded and while a run is processing.
StartEnabled ==
    /\ Visible(currentPage, showProjectManager) = "processing"
    /\ processingStage = "setup"
    /\ pythonDepsStatus = "ok"
    /\ ~isProcessing

startProcessingRejected ==
    /\ StartEnabled
    /\ MissingProjectData(projectData)
    /\ error' = [error |-> "Missing project data", code |-> -1, details |-> <<>>]
    /\ UNCHANGED <<processingStage, isProcessing, pythonDepsStatus, depsPending, progress>>
    /\ UNCHANGED <<appVars, mainVars, resVars, callVars>>
    /\ UNCHANGED engine

\* startProcessing up to its await of processPhotos(config).
startProcessing ==
    /\ StartEnabled
    /\ ~MissingProjectData(projectData)
    /\ started < MaxStarts
    /\ isProcessing' = TRUE
    /\ error' = NoError
    /\ processingStage' = "running"
    /\ progress' = 5
    /\ started' = started + 1
    /\ runs' = [runs EXCEPT ![started + 1] =
                   [IdleRun EXCEPT !.phase = "writing", !.mounted = TRUE]]
    /\ UNCHANGED <<pythonDepsStatus, depsPending, spawned, appVars, resVars, callVars>>
    /\ UNCHANGED engine

\* "Tentar Novamente" of the error stage.
StageAfterRetry == "setup"

retryAfterError ==
    /\ Visible(currentPage, showProjectManager) = "processing"
    /\ processingStage = "error"
    /\ processingStage' = StageAfterRetry
    /\ error' = NoError
    /\ depsPending' = TRUE
    /\ UNCHANGED <<isProcessing, pythonDepsStatus, progress>>
    /\ UNCHANGED <<appVars, mainVars, resVars, callVars>>
    /\ UNCHANGED engine

\* ------------------------------------------ main.js 'process-photos'
\* fs.writeFile(tempConfigPath, ...) rejected.
writeConfigFailed(r) ==
    /\ runs[r].phase = "writing"
    /\ runs' = [runs EXCEPT ![r].phase = "replied",
                            ![r].reply = [NoReply EXCEPT
                                             !.error = "Failed to create configuration file"]]
    /\ UNCHANGED <<started, spawned, appVars, ocrVars, resVars, callVars>>
    /\ UNCHANGED engine

\* spawn('python', ...) gave a running process.
spawnWorker(r) ==
    /\ runs[r].phase = "writing"
    /\ runs' = [runs EXCEPT ![r].phase = "alive"]
    /\ spawned' = spawned + 1
    /\ UNCHANGED <<started, appVars, ocrVars, resVars, callVars>>
    /\ UNCHANGED engine

\* pythonProcess.on('error'): the process could not be launched.
LaunchFailureReply == [NoReply EXCEPT !.error = "Failed to start photo processing"]

spawnError(r) ==
    /\ runs[r].phase = "writing"
    /\ runs' = [runs EXCEPT ![r].phase = "replied", ![r].reply = LaunchFailureReply]
    /\ UNCHANGED <<started, spawned, appVars, ocrVars, resVars, callVars>>
    /\ UNCHANGED engine

\* A 'processing-progress' message; percentage is <<>> when the message
\* has no percentage field.
ProgressEvent(stage, percentage) == [stage |-> stage, percentage |-> percentage]

includes(output, text) == \E i \in 1..Len(output) : output[i] = text

\* The stdout handler: one message per line of the chunk that includes a
\* marker, without a percentage.
RECURSIVE stdoutEvents(_)
stdoutEvents(lines) ==
    IF lines = <<>> THEN <<>>
    ELSE LET line == Head(lines) IN
         (IF line \in StdoutMarkers
          THEN <<ProgressEvent(IF line = "[QR_DETECTION]" THEN "qr_detection"
                               ELSE "grouping", <<>>)>>
          ELSE <<>>) \o stdoutEvents(Tail(lines))

\* The checkpoints of a stretch of standard output: the marker lines the
\* worker wrote, a cut line counted once.
RECURSIVE stdoutCheckpoints(_)
stdoutCheckpoints(lines) ==
    IF lines = <<>> THEN <<>>
    ELSE IF Head(lines) \in StdoutMarkers
    THEN stdoutEvents(<<Head(lines)>>) \o stdoutCheckpoints(Tail(lines))
    ELSE IF Len(lines) >= 2 /\ lines[1] = MarkerHead /\ lines[2] = MarkerTail
    THEN stdoutEvents(<<"[QR_DETECTION]">>) \o stdoutCheckpoints(Tail(Tail(lines)))
    ELSE stdoutCheckpoints(Tail(lines))

\* The checkpoints of a stretch of standard error: one message per line
\* that carries a phrase of the handler's chain.
RECURSIVE stderrCheckpoints(_)
stderrCheckpoints(output) ==
    IF output = <<>> THEN <<>>
    ELSE LET line == Head(output) IN
         (IF line = "Step 1:" THEN <<ProgressEvent("qr_detection", <<10>>)>>
          ELSE IF line = "Step 2:" THEN <<ProgressEvent("grouping", <<50>>)>>
          ELSE IF line = "Step 3:" THEN <<ProgressEvent("copying", <<75>>)>>
          ELSE IF line = "QR detected" THEN <<ProgressEvent("qr_detection", <<25>>)>>
          ELSE IF line = "Copied" THEN <<ProgressEvent("copying", <<85>>)>>
          ELSE <<>>) \o stderrCheckpoints(Tail(output))

\* The stderr handler: at most one message per chunk, by the first phrase
\* of the if / else-if chain that the chunk includes.
stderrEvents(output) ==
    IF includes(output, "Step 1:") THEN <<ProgressEvent("qr_detection", <<10>>)>>
    ELSE IF includes(output, "Step 2:") THEN <<ProgressEvent("grouping", <<50>>)>>
    ELSE IF includes(output, "Step 3:") THEN <<ProgressEvent("copying", <<75>>)>>
    ELSE IF includes(output, "QR detected") THEN <<ProgressEvent("qr_detection", <<25>>)>>
    ELSE IF includes(output, "Copied") THEN <<ProgressEvent("copying", <<85>>)>>
    ELSE <<>>

\* The progress listener of startProcessing is registered on the channel
\* from the start until its request is settled; its setProgress only acts
\* on a mounted view.
Listening ==
    \E q \in Runs : runs[q].mounted /\ runs[q].phase \in {"writing", "alive", "replied"}

\* setProgress({ ..., percentage: progressInfo.percentage || 0 })
percentageAfter(percentage, event) ==
    IF event.percentage = <<>> THEN 0 ELSE event.percentage[1]

RECURSIVE onProgress(_, _)
onProgress(percentage, events) ==
    IF events = <<>> THEN percentage
    ELSE onProgress(percentageAfter(percentage, Head(events)), Tail(events))

\* The worker writes whole lines: the tail of a cut marker line arrives
\* right after its head and only then.
Delivers(out, chunk) ==
    (chunk[1] = MarkerTail) <=> (out # <<>> /\ out[Len(out)] = MarkerHead)

\* pythonProcess.stdout.on('data'): outputData += output
stdoutData(r, chunk) ==
    /\ runs[r].phase = "alive"
    /\ Len(runs[r].outputData) + Len(chunk) <= MaxOut
    /\ Delivers(runs[r].outputData, chunk)
    /\ runs' = [runs EXCEPT ![r].outputData = @ \o chunk,
                            ![r].events = @ \o stdoutEvents(chunk)]
    /\ progress' = IF Listening THEN onProgress(progress, stdoutEvents(chunk)) ELSE progress
    /\ UNCHANGED <<processingStage, isProcessing, error, pythonDepsStatus, depsPending>>
    /\ UNCHANGED <<started, spawned, appVars, resVars, callVars>>
    /\ UNCHANGED engine

\* pythonProcess.stderr.on('data'): errorData += output
stderrData(r, chunk) ==
    /\ runs[r].phase = "alive"
    /\ Len(runs[r].errorData) < MaxErr
    /\ runs' = [runs EXCEPT ![r].errorData = @ \o chunk,
                            ![r].events = @ \o stderrEvents(chunk)]
    /\ progress' = IF Listening THEN onProgress(progress, stderrEvents(chunk)) ELSE progress
    /\ UNCHANGED <<processingStage, isProcessing, error, pythonDepsStatus, depsPending>>
    /\ UNCHANGED <<started, spawned, appVars, resVars, callVars>>
    /\ UNCHANGED engine

\* outputData.match(/==JSON_START==([\s\S]*?)==JSON_END==/): the leftmost
\* start sentinel that an end sentinel follows, up to the first such end.
Positions(out, tok) == {i \in 1..Len(out) : out[i] = tok}
Min(S) == CHOOSE x \in S : \A y \in S : x <= y
FirstStart(out) == Min(Positions(out, "==JSON_START=="))
EndsAfter(out) ==
    IF Positions(out, "==JSON_START==") = {} THEN {}
    ELSE {j \in Positions(out, "==JSON_END==") : j > FirstStart(out)}
jsonMatch(out) == EndsAfter(out) # {}
jsonMatch1(out) == SubSeq(out, FirstStart(out) + 1, Min(EndsAfter(out)) - 1)

\* JSON.parse(jsonData) returns a value only for one well-formed payload.
Parses(text) == Len(text) = 1 /\ text[1] \in Payloads

\* A 'close' handler that reports output without a sentinel block and
\* leaves the captured output out of the report.
closeReplySilent(code, out, err) ==
    IF code = 0
    THEN IF jsonMatch(out) /\ jsonMatch1(out) # <<>>
         THEN IF Parses(jsonMatch1(out))
              THEN [NoReply EXCEPT !.success = success(jsonMatch1(out)[1]),
                                   !.error = IF success(jsonMatch1(out)[1]) THEN Null
                                             ELSE "worker error",
                                   !.payload = jsonMatch1(out)[1]]
              ELSE [NoReply EXCEPT !.error = "Failed to parse processing results",
                                   !.raw_output = out]
         ELSE [NoReply EXCEPT !.error = "No valid JSON result found in output"]
    ELSE [NoReply EXCEPT !.error = "Processing failed with exit code", !.code = code,
                         !.details = err, !.raw_output = out]

\* The value the 'close' handler resolves the request with.
closeReply(code, out, err) ==
    IF code = 0
    THEN IF jsonMatch(out) /\ jsonMatch1(out) # <<>>
         THEN IF Parses(jsonMatch1(out))
              THEN [NoReply EXCEPT !.success = success(jsonMatch1(out)[1]),
                                   !.error = IF success(jsonMatch1(out)[1]) THEN Null
                                             ELSE "worker error",
                                   !.payload = jsonMatch1(out)[1]]
              ELSE [NoReply EXCEPT !.error = "Failed to parse processing results",
                                   !.raw_output = out]
         ELSE [NoReply EXCEPT !.error = "No valid JSON result found in output",
                              !.raw_output = out]
    ELSE [NoReply EXCEPT !.error = "Processing failed with exit code", !.code = code,
                         !.details = err, !.raw_output = out]

processClose(r, code) ==
    /\ runs[r].phase = "alive"
    /\ runs' = [runs EXCEPT ![r].phase = "replied",
                            ![r].exitCode = code,
                            ![r].reply = closeReply(code, runs[r].outputData,
                                                    runs[r].errorData)]
    /\ UNCHANGED <<started, spawned, appVars, ocrVars, resVars, callVars>>
    /\ UNCHANGED engine

\* --------------------------- OCRProcessing: after the await (111-167)
\* The request is settled: its closure (outputData, errorData) is gone.
DoneRun == [IdleRun EXCEPT !.phase = "done"]

\* A request that is sent again by itself when the worker crashed.
RunAfterReturnRespawn(run) ==
    IF run.exitCode > 0 THEN [IdleRun EXCEPT !.phase = "writing", !.mounted = run.mounted]
    ELSE DoneRun

RunAfterReturn(run) == DoneRun

\* The success branch runs to its end only when the result has a
\* processing_summary: reading result.processing_summary.qr_detected throws
\* otherwise, before setProcessingResults, and the catch clause takes over.
Completes(reply) == reply.success /\ processing_summary(reply.payload)

\* A failure branch that goes straight back to the setup stage.
StageAfterReset(reply) == IF Completes(reply) THEN "completed" ELSE "setup"

\* The state setters of the instance that issued the request.
StageAfter(reply) == IF Completes(reply) THEN "completed" ELSE "error"
ErrorAfter(reply) ==
    IF reply.success THEN [error |-> "TypeError", code |-> -1, details |-> <<>>]
    ELSE [error |-> reply.error, code |-> reply.code, details |-> reply.details]

processPhotosReturned(r) ==
    /\ runs[r].phase = "replied"
    /\ LET reply == runs[r].reply IN
       /\ IF runs[r].mounted
          THEN /\ processingStage' = StageAfter(reply)
               /\ error' = IF Completes(reply) THEN error ELSE ErrorAfter(reply)
               /\ isProcessing' = FALSE
               /\ progress' = IF reply.success THEN 100 ELSE progress
          ELSE UNCHANGED <<processingStage, error, isProcessing, progress>>
       /\ IF Completes(reply)
          THEN /\ processingResults' = [run |-> r, payload |-> reply.payload]
               /\ navTimers' = navTimers + 1
               /\ IF Visible(currentPage, showProjectManager) = "results"
                  THEN ResEffect(processingResults')
                  ELSE UNCHANGED <<groupsState, ungroupedPhotos>>
          ELSE UNCHANGED <<processingResults, navTimers, groupsState, ungroupedPhotos>>
    /\ runs' = [runs EXCEPT ![r] = RunAfterReturn(runs[r])]
    /\ UNCHANGED <<pythonDepsStatus, depsPending, currentPage, showProjectManager,
                   projectData, started, spawned>>
    /\ UNCHANGED <<editingGroupKey, selectedGroupPhotos, manualVars, isFinalizing, callVars>>
    /\ UNCHANGED engine

\* ------------------------------------------- Results (part_001:518-1093)
\* The page renders its handlers only when the App holds a result.
ResultsShown ==
    /\ Visible(currentPage, showProjectManager) = "results"
    /\ processingResults # NoResults

Range(seq) == {seq[i] : i \in 1..Len(seq)}
RemoveAt(seq, i) == SubSeq(seq, 1, i - 1) \o SubSeq(seq, i + 1, Len(seq))

\* photoKey: (file_path || path || file_name || fileName || '') + '|' + (modified_time || '')
photoKey(p) == <<IF file_path(p) # Null THEN file_path(p) ELSE file_name(p), modified_time(p)>>
isSamePhoto(a, b) == photoKey(a) = photoKey(b)

handleEditGroup(k) ==
    /\ ResultsShown
    /\ groupsState[k].present
    /\ editingGroupKey' = IF editingGroupKey = k THEN Null ELSE k
    /\ selectedGroupPhotos' = <<>>
    /\ UNCHANGED <<groupsState, ungroupedPhotos, manualVars, isFinalizing, callVars>>
    /\ UNCHANGED <<appVars, ocrVars, mainVars>>
    /\ UNCHANGED engine

toggleSelectPhotoInGroup(k, p) ==
    /\ ResultsShown
    /\ groupsState[k].present
    /\ p \in Range(groupsState[k].photos)
    /\ editingGroupKey = k
    /\ selectedGroupPhotos' =
          IF \E sp \in Range(selectedGroupPhotos) : isSamePhoto(sp, p)
          THEN SelectSeq(selectedGroupPhotos, LAMBDA sp : ~isSamePhoto(sp, p))
          ELSE Append(selectedGroupPhotos, p)
    /\ UNCHANGED <<groupsState, ungroupedPhotos, editingGroupKey, manualVars, isFinalizing>>
    /\ UNCHANGED <<callVars, appVars, ocrVars, mainVars>>
    /\ UNCHANGED engine

\* The two filters of handleMoveSelectedToUngrouped.
Selected(sel, p) == \E sp \in Range(sel) : isSamePhoto(sp, p)
remaining(photos, sel) == SelectSeq(photos, LAMBDA p : ~Selected(sel, p))

\* A move that takes the selection itself instead of filtering the group.
movedSelection(photos, sel) == sel

moved(photos, sel) == SelectSeq(photos, LAMBDA p : Selected(sel, p))

\* An update that keeps the edited group only.
groupsAfterMoveAlone(groups, key, photos) ==
    [k \in GroupKeys |-> IF k = key THEN Group(photos) ELSE NoGroup]

\* setGroupsState((prev) => ({ ...prev, [editingGroupKey]: { ...group, photos: remaining } }))
groupsAfterMove(groups, key, photos) == [groups EXCEPT ![key] = Group(photos)]

\* A move that puts the moved photos behind the list.
appended(photos, prev) == prev \o photos

\* setUngroupedPhotos((prev) => [...moved, ...prev])
prepended(photos, prev) == photos \o prev

handleMoveSelectedToUngrouped ==
    /\ ResultsShown
    /\ editingGroupKey # Null
    /\ selectedGroupPhotos # <<>>
    /\ groupsState[editingGroupKey].present
    /\ LET group == groupsState[editingGroupKey] IN
       /\ groupsState' = groupsAfterMove(groupsState, editingGroupKey,
                                         remaining(group.photos, selectedGroupPhotos))
       /\ ungroupedPhotos' = prepended(moved(group.photos, selectedGroupPhotos), ungroupedPhotos)
    /\ selectedGroupPhotos' = <<>>
    /\ editingGroupKey' = Null
    /\ UNCHANGED <<manualVars, isFinalizing, callVars, appVars, ocrVars, mainVars>>
    /\ UNCHANGED engine

\* The ungrouped section, and the manual grouping panel inside it, are
\* rendered only while ungroupedPhotos is not empty.
handleManualGrouping ==
    /\ ResultsShown
    /\ ungroupedPhotos # <<>>
    /\ showManualGrouping' = TRUE
    /\ UNCHANGED <<selectedUngroupedPhotos, targetParticipant, editVars, isFinalizing>>
    /\ UNCHANGED <<callVars, appVars, ocrVars, mainVars>>
    /\ UNCHANGED engine

PanelShown == ResultsShown /\ ungroupedPhotos # <<>> /\ showManualGrouping

toggleSelectUngrouped(p) ==
    /\ PanelShown
    /\ p \in Range(ungroupedPhotos)
    /\ selectedUngroupedPhotos' =
          IF p \in Range(selectedUngroupedPhotos)
          THEN SelectSeq(selectedUngroupedPhotos, LAMBDA q : q # p)
          ELSE Append(selectedUngroupedPhotos, p)
    /\ UNCHANGED <<showManualGrouping, targetParticipant, editVars, isFinalizing>>
    /\ UNCHANGED <<callVars, appVars, ocrVars, mainVars>>
    /\ UNCHANGED engine

setTargetParticipant(n) ==
    /\ PanelShown
    /\ n \in 0..projectData.participants
    /\ targetParticipant' = n
    /\ UNCHANGED <<showManualGrouping, selectedUngroupedPhotos, editVars, isFinalizing>>
    /\ UNCHANGED <<callVars, appVars, ocrVars, mainVars>>
    /\ UNCHANGED engine

cancelManualGrouping ==
    /\ PanelShown
    /\ showManualGrouping' = FALSE
    /\ selectedUngroupedPhotos' = <<>>
    /\ targetParticipant' = 0
    /\ UNCHANGED <<editVars, isFinalizing, callVars, appVars, ocrVars, mainVars>>
    /\ UNCHANGED engine

\* A call to the main process: what was sent (photos of the result of
\* which run, to which destination), and once the handler has run, what
\* it returned.
NewCall(photos, dest) ==
    [photos |-> photos, dest |-> dest, run |-> processingResults.run,
     phase |-> "sent", success |-> FALSE,
     error |-> FALSE, attempted |-> <<>>, moved |-> <<>>, errors |-> <<>>,
     mounted |-> TRUE]

\* handleAssignPhotos up to its await.
handleAssignPhotos ==
    /\ PanelShown
    /\ targetParticipant # 0
    /\ selectedUngroupedPhotos # <<>>
    /\ Len(assignCalls) < MaxPending
    /\ assignCalls' = Append(assignCalls,
                             NewCall(selectedUngroupedPhotos, projectData.createdFolderPath))
    /\ UNCHANGED <<finalizeCalls, resVars, appVars, ocrVars, mainVars>>
    /\ UNCHANGED engine

HasPath(p) == file_path(p) # Null

\* path.basename(sourcePath)
basename(path) == CASE path \in {"a/x.jpg", "b/x.jpg"} -> "x.jpg" [] OTHER -> path

\* destPath = path.join(folder, fileName), inside the folder of the call.
destPath(p) == basename(file_path(p))

\* The per-photo loop of both copy handlers, one iteration per photo: a
\* photo without a path is skipped; fs.copyFile is called for the others
\* (attempted), and the photo is pushed on moved when the copy succeeds and
\* on errors when it throws, inside the loop's own try/catch.  copyOk is
\* the set of photos whose fs.copyFile succeeds.
NoCopies == [attempted |-> <<>>, moved |-> <<>>, errors |-> <<>>]

RECURSIVE copyEach(_, _, _)
copyEach(photos, copyOk, results) ==
    IF photos = <<>> THEN results
    ELSE LET photo == Head(photos) IN
         copyEach(Tail(photos), copyOk,
                  IF ~HasPath(photo) THEN results
                  ELSE IF photo \in copyOk
                       THEN [results EXCEPT !.attempted = Append(@, photo),
                                            !.moved = Append(@, photo)]
                       ELSE [results EXCEPT !.attempted = Append(@, photo),
                                            !.errors = Append(@, photo)])

\* A loop whose try/catch is around the whole loop: the first copy that
\* throws ends it.
RECURSIVE copyUntilThrow(_, _, _)
copyUntilThrow(photos, copyOk, results) ==
    IF photos = <<>> THEN results
    ELSE LET photo == Head(photos) IN
         IF ~HasPath(photo) THEN copyUntilThrow(Tail(photos), copyOk, results)
         ELSE IF photo \in copyOk
              THEN copyUntilThrow(Tail(photos), copyOk,
                                  [results EXCEPT !.attempted = Append(@, photo),
                                                  !.moved = Append(@, photo)])
              ELSE [results EXCEPT !.attempted = Append(@, photo),
                                   !.errors = Append(@, photo)]

copyLoopAborting(call, copyOk) ==
    LET results == copyUntilThrow(call.photos, copyOk, NoCopies) IN
    [call EXCEPT !.phase = "replied",
                 !.attempted = results.attempted,
                 !.moved = results.moved,
                 !.errors = results.errors,
                 !.success = (results.errors = <<>>)]

copyLoop(call, copyOk) ==
    LET results == copyEach(call.photos, copyOk, NoCopies) IN
    [call EXCEPT !.phase = "replied",
                 !.attempted = results.attempted,
                 !.moved = results.moved,
                 !.errors = results.errors,
                 !.success = (results.errors = <<>>)]

\* The outer catch: { success: false, error }.
callFailed(call) == [call EXCEPT !.phase = "replied", !.success = FALSE, !.error = TRUE]

\* ipcMain.handle('assign-photos-to-participant'): path.join throws on a
\* missing destinationFolder, fs.mkdir may reject.
assignHandler(call, mkdirOk, copyOk) ==
    IF ~call.dest \/ ~mkdirOk THEN callFailed(call) ELSE copyLoop(call, copyOk)

assignPhotosToParticipant(i, mkdirOk, copyOk) ==
    /\ i \in 1..Len(assignCalls)
    /\ assignCalls[i].phase = "sent"
    /\ assignCalls' = [assignCalls EXCEPT ![i] = assignHandler(@, mkdirOk, copyOk)]
    /\ UNCHANGED <<finalizeCalls, resVars, appVars, ocrVars, mainVars>>
    /\ UNCHANGED engine

\* handleAssignPhotos after its await.
ungroupedAfterAssign(ungrouped, call) ==
    IF call.success
    THEN SelectSeq(ungrouped, LAMBDA p : p \notin Range(call.photos))
    ELSE ungrouped

assignReturned(i) ==
    /\ i \in 1..Len(assignCalls)
    /\ assignCalls[i].phase = "replied"
    /\ LET call == assignCalls[i] IN
       IF call.mounted /\ call.success
       THEN /\ ungroupedPhotos' = ungroupedAfterAssign(ungroupedPhotos, call)
            /\ selectedUngroupedPhotos' = <<>>
            /\ targetParticipant' = 0
            /\ showManualGrouping' = FALSE
       ELSE UNCHANGED <<ungroupedPhotos, manualVars>>
    /\ assignCalls' = RemoveAt(assignCalls, i)
    /\ UNCHANGED <<groupsState, editingGroupKey, selectedGroupPhotos, isFinalizing>>
    /\ UNCHANGED <<finalizeCalls, appVars, ocrVars, mainVars>>
    /\ UNCHANGED engine

\* handleFinalize up to its await; the button is disabled while finalizing.
handleFinalize ==
    /\ ResultsShown
    /\ ~isFinalizing
    /\ Len(finalizeCalls) < MaxPending
    /\ isFinalizing' = TRUE
    /\ finalizeCalls' = Append(finalizeCalls,
                               NewCall(ungroupedPhotos, projectData.createdFolderPath))
    /\ UNCHANGED <<assignCalls, editVars, manualVars, appVars, ocrVars, mainVars>>
    /\ UNCHANGED engine

\* ipcMain.handle('save-ungrouped-photos')
saveHandler(call, mkdirOk, copyOk) ==
    IF ~call.dest \/ ~mkdirOk THEN callFailed(call) ELSE copyLoop(call, copyOk)

saveUngroupedPhotos(i, mkdirOk, copyOk) ==
    /\ i \in 1..Len(finalizeCalls)
    /\ finalizeCalls[i].phase = "sent"
    /\ finalizeCalls' = [finalizeCalls EXCEPT ![i] = saveHandler(@, mkdirOk, copyOk)]
    /\ UNCHANGED <<assignCalls, resVars, appVars, ocrVars, mainVars>>
    /\ UNCHANGED engine

\* A finalize that takes the saved photos off the list, as an assignment
\* does.
ungroupedAfterSaving(ungrouped, call) ==
    IF call.success
    THEN SelectSeq(ungrouped, LAMBDA p : p \notin Range(call.moved))
    ELSE ungrouped

\* The ungrouped list after handleFinalize's await: the handler sets
\* nothing but isFinalizing.
ungroupedAfterFinalize(ungrouped, call) == ungrouped

\* handleFinalize after its await: an alert, and the finally clause.
finalizeReturned(i) ==
    /\ i \in 1..Len(finalizeCalls)
    /\ finalizeCalls[i].phase = "replied"
    /\ isFinalizing' = IF finalizeCalls[i].mounted THEN FALSE ELSE isFinalizing
    /\ ungroupedPhotos' = ungroupedAfterFinalize(ungroupedPhotos, finalizeCalls[i])
    /\ finalizeCalls' = RemoveAt(finalizeCalls, i)
    /\ UNCHANGED <<groupsState, editingGroupKey, selectedGroupPhotos>>
    /\ UNCHANGED <<assignCalls, manualVars, appVars, ocrVars, mainVars>>
    /\ UNCHANGED engine

\* ------------------------------------- Correlation Engine (spec.md 4.2)
\* The engine runs inside the worker (python/), whose code is not part of
\* the sources at hand: it is modelled from its specification.
Roster == {"QR1", "QR2", "QR3"}
UnknownCode == "QR999"
NoCode == Null
DetectedCodes == Roster \cup {UnknownCode, NoCode}
Ungrouped == "ungrouped"

PhotoRecord(order, code) == [captureOrder |-> order, detectedCode |-> code]

Detections(codes) == [i \in 1..Len(codes) |-> PhotoRecord(i, codes[i])]

\* Scenario A: markers at photos 1, 4 and 7 of 9.
ScenarioA ==
    Detections(<<"QR1", NoCode, NoCode, "QR2", NoCode, NoCode, "QR3", NoCode, NoCode>>)

\* Scenario B: one marker, at photo 4 of 9.
ScenarioB ==
    Detections(<<NoCode, NoCode, NoCode, "QR2", NoCode, NoCode, NoCode, NoCode, NoCode>>)

\* The detection sequences of a run, in capture order.
DetectionSequences ==
    {Detections(codes) : codes \in UNION {[1..n -> DetectedCodes] : n \in 0..MaxPhotos}}
    \cup {ScenarioA, ScenarioB}

Reverse(seq) == [i \in 1..Len(seq) |-> seq[Len(seq) + 1 - i]]

\* Every order in which the records of a sequence can be listed.
Arrangements(d) == {[i \in 1..Len(d) |-> d[f[i]]] : f \in Permutations(1..Len(d))}

\* The worker hands the records over in capture order or not: the short
\* sequences in every order, the scenarios in capture order and reversed.
Deliveries ==
    UNION {IF Len(d) <= MaxPhotos THEN Arrangements(d) ELSE {d, Reverse(d)} :
              d \in DetectionSequences}

EngineIdle ==
    [stage |-> "idle", input |-> <<>>, detections |-> <<>>, position |-> 0, cursor |-> Null,
     groups |-> [q \in Roster |-> <<>>], ungrouped |-> <<>>]

EngineReceived(records) ==
    [EngineIdle EXCEPT !.stage = "received", !.input = records, !.detections = records]

\* Step 1: sort the records by captureOrder.
earlier(a, b) == a.captureOrder < b.captureOrder

\* An engine that trusts the worker's order.
sortByCaptureOrderTrusting(records) == records

sortByCaptureOrder(records) == SortSeq(records, earlier)

sortDetections ==
    /\ engine.stage = "received"
    /\ engine' = [engine EXCEPT !.stage = "attributing",
                                !.detections = sortByCaptureOrder(@)]
    /\ UNCHANGED <<appVars, ocrVars, mainVars, resVars, callVars>>

\* Step 3, per record.
matchesRoster(photo) == photo.detectedCode \in Roster

\* A cursor that a code outside the roster clears.
cursorAfterClearing(cursor, photo) ==
    IF photo.detectedCode \in Roster THEN photo.detectedCode
    ELSE IF photo.detectedCode # NoCode THEN Null
    ELSE cursor

\* The "current participant" after a record: a roster code sets it, any
\* other record leaves it unchanged.
cursorAfter(cursor, photo) ==
    IF matchesRoster(photo) THEN photo.detectedCode ELSE cursor

\* An attribution that takes a marker photo for a separator only.
destinationSeparator(cursor, photo) ==
    IF photo.detectedCode # NoCode THEN Ungrouped
    ELSE IF cursor # Null THEN cursor
    ELSE Ungrouped

\* Where a record goes: the group of its roster code, the group of the
\* current participant, or ungrouped.
destination(cursor, photo) ==
    IF matchesRoster(photo) THEN photo.detectedCode
    ELSE IF photo.detectedCode # NoCode THEN Ungrouped
    ELSE IF cursor # Null THEN cursor
    ELSE Ungrouped

reason(photo) ==
    IF photo.detectedCode # NoCode THEN "qr code not in roster"
    ELSE "no participant context yet"

Excluded(photo) == [photo |-> photo, reason |-> reason(photo)]

attribute(state, photo) ==
    LET dest == destination(state.cursor, photo) IN
    [state EXCEPT
        !.position = @ + 1,
        !.cursor = cursorAfter(@, photo),
        !.groups = IF dest \in Roster THEN [@ EXCEPT ![dest] = Append(@, photo)] ELSE @,
        !.ungrouped = IF dest = Ungrouped THEN Append(@, Excluded(photo)) ELSE @]

\* The engine as a function of the ordered records.
RECURSIVE correlate(_, _)
correlate(state, records) ==
    IF records = <<>> THEN state
    ELSE correlate(attribute(state, Head(records)), Tail(records))

attributeNext ==
    /\ engine.stage = "attributing"
    /\ engine.position < Len(engine.detections)
    /\ engine' = attribute(engine, engine.detections[engine.position + 1])
    /\ UNCHANGED <<appVars, ocrVars, mainVars, resVars, callVars>>

\* ------------------------------------------------------------ behaviour
\* The application as it starts.
Init ==
    /\ currentPage = "home"
    /\ showProjectManager = FALSE
    /\ projectData = EmptyProject
    /\ processingResults = NoResults
    /\ navTimers = 0
    /\ processingStage = "none"
    /\ isProcessing = FALSE
    /\ error = NoError
    /\ pythonDepsStatus = Null
    /\ depsPending = FALSE
    /\ progress = 0
    /\ runs = [r \in Runs |-> IdleRun]
    /\ started = 0
    /\ spawned = 0
    /\ groupsState = [k \in GroupKeys |-> NoGroup]
    /\ ungroupedPhotos = <<>>
    /\ editingGroupKey = Null
    /\ selectedGroupPhotos = <<>>
    /\ showManualGrouping = FALSE
    /\ selectedUngroupedPhotos = <<>>
    /\ targetParticipant = 0
    /\ isFinalizing = FALSE
    /\ assignCalls = <<>>
    /\ finalizeCalls = <<>>
    /\ engine = EngineIdle

AppActions ==
    \/ \E page \in Pages \cup {"projects"} : handleNavigation(page)
    \/ NavigationTimer

HomeActions ==
    \/ \E pd \in SavedProjects \cup {EmptyProject} : handleLoadProject(pd)
    \/ \E src \in BOOLEAN, n \in 0..MaxParticipants : updateProjectData(src, n)
    \/ handleStartProject

ViewActions ==
    \/ \E ok \in BOOLEAN : checkPythonDependencies(ok)
    \/ startProcessingRejected
    \/ startProcessing
    \/ retryAfterError
    \/ \E r \in Runs : processPhotosReturned(r)

WorkerActions(chunks, errChunks) ==
    \/ \E r \in Runs : writeConfigFailed(r)
    \/ \E r \in Runs : spawnWorker(r)
    \/ \E r \in Runs : spawnError(r)
    \/ \E r \in Runs, chunk \in chunks : stdoutData(r, chunk)
    \/ \E r \in Runs, chunk \in errChunks : stderrData(r, chunk)
    \/ \E r \in Runs, code \in ExitCodes : processClose(r, code)

EditActions ==
    \/ \E k \in GroupKeys : handleEditGroup(k)
    \/ \E k \in GroupKeys, p \in Photos : toggleSelectPhotoInGroup(k, p)
    \/ handleMoveSelectedToUngrouped

AssignActions ==
    \/ handleManualGrouping
    \/ \E p \in Photos : toggleSelectUngrouped(p)
    \/ \E n \in 0..MaxParticipants : setTargetParticipant(n)
    \/ cancelManualGrouping
    \/ handleAssignPhotos
    \/ \E i \in 1..MaxPending, ok \in BOOLEAN, copyOk \in SUBSET Photos :
          assignPhotosToParticipant(i, ok, copyOk)
    \/ \E i \in 1..MaxPending : assignReturned(i)

FinalizeActions ==
    \/ handleFinalize
    \/ \E i \in 1..MaxPending, ok \in BOOLEAN, copyOk \in SUBSET Photos :
          saveUngroupedPhotos(i, ok, copyOk)
    \/ \E i \in 1..MaxPending : finalizeReturned(i)

ResultsActions == EditActions \/ AssignActions \/ FinalizeActions

\* The whole application.
Next ==
    \/ AppActions
    \/ HomeActions
    \/ ViewActions
    \/ WorkerActions(PieceChunks, ErrChunks)
    \/ ResultsActions

Spec == Init /\ [][Next]_vars

\* A processing view that has just been mounted on any project the Home
\* page, the sidebar and the credentials page can lead to, and that stays
\* on screen: its starts, its workers and its retries.
InitRun ==
    /\ currentPage = "processing"
    /\ showProjectManager = FALSE
    /\ projectData \in ProjectDatas
    /\ processingResults = NoResults
    /\ navTimers = 0
    /\ processingStage = "setup"
    /\ isProcessing = FALSE
    /\ error = NoError
    /\ pythonDepsStatus = Null
    /\ depsPending = TRUE
    /\ progress = 0
    /\ runs = [r \in Runs |-> IdleRun]
    /\ started = 0
    /\ spawned = 0
    /\ groupsState = [k \in GroupKeys |-> NoGroup]
    /\ ungroupedPhotos = <<>>
    /\ editingGroupKey = Null
    /\ selectedGroupPhotos = <<>>
    /\ showManualGrouping = FALSE
    /\ selectedUngroupedPhotos = <<>>
    /\ targetParticipant = 0
    /\ isFinalizing = FALSE
    /\ assignCalls = <<>>
    /\ finalizeCalls = <<>>
    /\ engine = EngineIdle

NextRun == ViewActions \/ WorkerActions(PieceChunks, ErrChunks)

SpecRun == InitRun /\ [][NextRun]_vars

\* The same view and the progress messages of a worker that writes
\* checkpoint lines.
NextProgress == ViewActions \/ WorkerActions(ProgressChunks, ProgressErrChunks)

SpecProgress == InitRun /\ [][NextProgress]_vars

\* The same view and a worker that writes log lines and sentinel blocks on
\* either stream.
NextStreams == ViewActions \/ WorkerActions(BlockChunks, BlockChunks)

SpecStreams == InitRun /\ [][NextStreams]_vars

\* The same view with the operator free to leave it and come back; the
\* worker's output arrives in whole blocks.
NextLeave == AppActions \/ ViewActions \/ WorkerActions(BlockChunks, ErrChunks)

SpecLeave == InitRun /\ [][NextLeave]_vars

\* The processing view, the navigation around it, and finalize on the
\* results view.
NextStale == NextLeave \/ FinalizeActions

SpecStale == InitRun /\ [][NextStale]_vars

\* The results view as the navigation timer of a completed first run
\* opens it, and the reconciliation and finalize operations from there.
InitRecon ==
    /\ currentPage = "results"
    /\ showProjectManager = FALSE
    /\ projectData \in {pd \in ProjectDatas : pd.sourceFolder}
    /\ processingResults \in {[run |-> 1, payload |-> j] : j \in ResultPayloads}
    /\ navTimers = 0
    /\ processingStage = "none"
    /\ isProcessing = FALSE
    /\ error = NoError
    /\ pythonDepsStatus = Null
    /\ depsPending = FALSE
    /\ progress = 0
    /\ runs = [r \in Runs |-> IF r = 1 THEN DoneRun ELSE IdleRun]
    /\ started = 1
    /\ spawned = 1
    /\ groupsState = photo_grouping(processingResults.payload).groups
    /\ ungroupedPhotos = photo_grouping(processingResults.payload).ungrouped_photos
    /\ editingGroupKey = Null
    /\ selectedGroupPhotos = <<>>
    /\ showManualGrouping = FALSE
    /\ selectedUngroupedPhotos = <<>>
    /\ targetParticipant = 0
    /\ isFinalizing = FALSE
    /\ assignCalls = <<>>
    /\ finalizeCalls = <<>>
    /\ engine = EngineIdle

NextRecon == EditActions \/ AssignActions

SpecRecon == InitRecon /\ [][NextRecon]_vars

\* The results view with some photos in ungrouped, as the run or the
\* operator's moves left them, and the two copy operations from there.
InitCopy ==
    /\ InitRecon
    /\ processingResults.payload = "J2"

NextCopy == ResultsActions

SpecCopy == InitCopy /\ [][NextCopy]_vars

\* The results view as the button of the completed run opens it, before
\* the run's navigation timer has fired; the operator edits the groups and
\* moves between the pages.
InitReopen ==
    /\ currentPage = "results"
    /\ showProjectManager = FALSE
    /\ projectData \in {pd \in ProjectDatas : pd.sourceFolder}
    /\ processingResults \in {[run |-> 1, payload |-> j] : j \in ResultPayloads}
    /\ navTimers = 1
    /\ processingStage = "none"
    /\ isProcessing = FALSE
    /\ error = NoError
    /\ pythonDepsStatus = Null
    /\ depsPending = FALSE
    /\ progress = 0
    /\ runs = [r \in Runs |-> IF r = 1 THEN DoneRun ELSE IdleRun]
    /\ started = 1
    /\ spawned = 1
    /\ groupsState = photo_grouping(processingResults.payload).groups
    /\ ungroupedPhotos = photo_grouping(processingResults.payload).ungrouped_photos
    /\ editingGroupKey = Null
    /\ selectedGroupPhotos = <<>>
    /\ showManualGrouping = FALSE
    /\ selectedUngroupedPhotos = <<>>
    /\ targetParticipant = 0
    /\ isFinalizing = FALSE
    /\ assignCalls = <<>>
    /\ finalizeCalls = <<>>
    /\ engine = EngineIdle

NextReopen == AppActions \/ EditActions

SpecReopen == InitReopen /\ [][NextReopen]_vars

\* The same view, edited and finalized.
NextFinalize == EditActions \/ FinalizeActions

SpecFinalize == InitRecon /\ [][NextFinalize]_vars

\* The correlation engine of one worker on every detection sequence.
InitEngine ==
    /\ currentPage = "processing"
    /\ showProjectManager = FALSE
    /\ projectData = EmptyProject
    /\ processingResults = NoResults
    /\ navTimers = 0
    /\ processingStage = "running"
    /\ isProcessing = TRUE
    /\ error = NoError
    /\ pythonDepsStatus = Null
    /\ depsPending = FALSE
    /\ progress = 5
    /\ runs = [r \in Runs |-> IF r = 1 THEN [IdleRun EXCEPT !.phase = "alive", !.mounted = TRUE]
                                       ELSE IdleRun]
    /\ started = 1
    /\ spawned = 1
    /\ groupsState = [k \in GroupKeys |-> NoGroup]
    /\ ungroupedPhotos = <<>>
    /\ editingGroupKey = Null
    /\ selectedGroupPhotos = <<>>
    /\ showManualGrouping = FALSE
    /\ selectedUngroupedPhotos = <<>>
    /\ targetParticipant = 0
    /\ isFinalizing = FALSE
    /\ assignCalls = <<>>
    /\ finalizeCalls = <<>>
    /\ engine \in {EngineReceived(records) : records \in Deliveries}

NextEngine == sortDetections \/ attributeNext

SpecEngine == InitEngine /\ [][NextEngine]_vars

\* ------------------------------------------------------------ properties
RECURSIVE SumLen(_, _)
SumLen(gs, keys) ==
    IF keys = {} THEN 0
    ELSE LET k == CHOOSE x \in keys : TRUE IN Len(gs[k].photos) + SumLen(gs, keys \ {k})

\* What the run produced, and where its photos are now.
totalPhotosSeen(payload) ==
    Len(photo_grouping(payload).ungrouped_photos)
    + SumLen(photo_grouping(payload).groups, GroupKeys)

Produced(payload) ==
    Range(photo_grouping(payload).ungrouped_photos)
    \cup UNION {Range(photo_grouping(payload).groups[k].photos) : k \in GroupKeys}

Places(p) ==
    Cardinality({i \in 1..Len(ungroupedPhotos) : ungroupedPhotos[i] = p})
    + Cardinality(UNION {{<<k, i>> : i \in {j \in 1..Len(groupsState[k].photos) :
                                                groupsState[k].photos[j] = p}} :
                         k \in GroupKeys})

\* C1 (conservation): on the results view of a completed run, after any
\* sequence of moves to ungrouped and of assignments, the size of ungrouped
\* plus the sizes of all groups' photo lists is the number of photos the
\* run produced.
C1_Conservation ==
    ResultsShown =>
        Len(ungroupedPhotos) + SumLen(groupsState, GroupKeys)
            = totalPhotosSeen(processingResults.payload)

\* C2 (exactly-one membership): on the results view of a completed run,
\* every photo the run produced is in exactly one collection, a group's
\* photo list or ungrouped: never in two, never in none.
C2_ExactlyOne ==
    ResultsShown => \A p \in Produced(processingResults.payload) : Places(p) = 1

\* C3 (assignment removes on success only, per item): when an assignment
\* returns, each photo of the selection is absent from ungrouped if and
\* only if its own copy succeeded.
C3_RemovesPerItem ==
    [][\A i \in 1..Len(assignCalls) :
          (assignCalls[i].phase = "replied" /\ assignCalls[i].mounted
             /\ assignCalls' = RemoveAt(assignCalls, i))
          => \A p \in Range(assignCalls[i].photos) :
                (p \notin Range(ungroupedPhotos')) <=> (p \in Range(assignCalls[i].moved))]_vars

\* C4 (run state machine, as the code has it): while the processing view
\* is on screen its stage only moves from setup to running, from running to
\* completed or error, and from error back to setup when the operator
\* retries; completed is final.
StageSteps ==
    {<<"setup", "running">>, <<"running", "completed">>, <<"running", "error">>}

C4_StageMachine ==
    [][processingStage' # processingStage =>
          <<processingStage, processingStage'>> \in StageSteps \cup {<<"error", "setup">>}]_vars

\* C4 as stated: setup to running, running to completed, error or
\* cancelled, and nothing after those.
C4_AsStated ==
    [][processingStage' # processingStage =>
          <<processingStage, processingStage'>>
              \in StageSteps \cup {<<"running", "cancelled">>}]_vars

\* The operator retried after an error: the stage is setup again.
C4_Witness == processingStage = "setup" /\ started > 0

Malformed(out) == ~jsonMatch(out) \/ ~Parses(jsonMatch1(out))

\* C5 (malformed output): when the worker exits with code 0 and its output
\* has no sentinel-delimited payload, or the text between the sentinels does
\* not parse, the reply is a failure that carries the whole captured
\* output, the view's stage becomes error, and processingResults never
\* holds a result of that run.
C5_MalformedOutput ==
    [][\A r \in Runs :
          /\ (runs'[r].phase = "replied" /\ runs'[r].exitCode = 0
                /\ Malformed(runs'[r].outputData))
             => /\ ~runs'[r].reply.success
                /\ runs'[r].reply.raw_output = runs'[r].outputData
                /\ runs'[r].reply.payload = Null
          /\ (runs[r].phase = "replied" /\ runs[r].exitCode = 0
                /\ Malformed(runs[r].outputData) /\ runs'[r] # runs[r])
             => /\ runs[r].mounted => processingStage' = "error"
                /\ processingResults' = processingResults
          /\ (processingResults'.run = r /\ processingResults.run # r)
             => runs[r].exitCode = 0 /\ ~Malformed(runs[r].outputData)]_vars

\* A worker that exited with code 0 left text between the sentinels that
\* does not parse, and the view shows the failure.
C5_Witness ==
    /\ processingStage = "error"
    /\ error.error = "Failed to parse processing results"

\* C6 (worker crash): when the worker exits with a nonzero code the reply
\* is a failure carrying the exit code, the captured stderr and the
\* captured stdout, whatever the output holds; the view's stage becomes
\* error and no result is stored; the request is then over, and a worker
\* is only ever spawned for a request the operator's start button issued.
C6_WorkerCrash ==
    [][\A r \in Runs :
          /\ (runs'[r].phase = "replied" /\ runs'[r].exitCode > 0)
             => /\ ~runs'[r].reply.success
                /\ runs'[r].reply.code = runs'[r].exitCode
                /\ runs'[r].reply.details = runs'[r].errorData
                /\ runs'[r].reply.raw_output = runs'[r].outputData
          /\ (runs[r].phase = "replied" /\ runs[r].exitCode > 0 /\ runs'[r] # runs[r])
             => /\ runs[r].mounted =>
                      /\ processingStage' = "error"
                      /\ error'.code = runs[r].exitCode
                      /\ error'.details = runs[r].errorData
                /\ processingResults' = processingResults
                /\ runs'[r].phase = "done"
          /\ runs[r].phase = "done" => runs'[r].phase = "done"
          /\ (runs'[r].phase = "writing" /\ runs[r].phase # "writing")
             => StartEnabled /\ started' = started + 1 /\ r = started'
          /\ spawned' <= started']_vars

\* A worker crashed after it wrote a well-formed sentinel block and some
\* diagnostics.
C6_Witness ==
    \E r \in Runs :
        /\ runs[r].phase = "replied" /\ runs[r].exitCode > 0
        /\ ~Malformed(runs[r].outputData)
        /\ runs[r].errorData # <<>>

\* The operator left the processing view while the request was under way.
Abandoned(r) == runs[r].phase \in {"writing", "alive", "replied"} /\ ~runs[r].mounted

\* C7 (cancellation): a run the operator gave up while it was running never
\* makes a result available to the results view.
C7_Cancellation ==
    [][\A r \in Runs : Abandoned(r) => processingResults'.run # r]_vars

InvalidInputs(pd) == pd.participants <= 0 \/ ~pd.sourceFolder \/ ~pd.createdFolderPath

\* C8 (input validation before spawn): with an empty roster, or without a
\* source folder or a destination folder, the stage never becomes running
\* and no worker is spawned.
C8_Validation ==
    InvalidInputs(projectData) =>
        /\ processingStage # "running"
        /\ \A r \in Runs : runs[r].phase = "idle"
        /\ spawned = 0

\* C9 (launch failure creates no run): when the worker could not be
\* launched, the stage is not running by the time the failure is reported.
C9_LaunchFailure ==
    \A r \in Runs :
        (runs[r].phase = "replied" /\ runs[r].reply = LaunchFailureReply /\ runs[r].mounted)
        => processingStage # "running"

\* C10 (finalize accounting): when the copy loop of finalize has run, every
\* photo it was given is in exactly one of the two result lists, and
\* success says that the errors list is empty.
C10_FinalizeAccounting ==
    \A i \in 1..Len(finalizeCalls) :
        (finalizeCalls[i].phase = "replied" /\ ~finalizeCalls[i].error)
        => /\ Len(finalizeCalls[i].moved) + Len(finalizeCalls[i].errors)
                 = Len(finalizeCalls[i].photos)
           /\ \A p \in Range(finalizeCalls[i].photos) :
                 (p \in Range(finalizeCalls[i].moved)) # (p \in Range(finalizeCalls[i].errors))
           /\ finalizeCalls[i].success <=> (finalizeCalls[i].errors = <<>>)

\* The copy batches that were sent to the main process.
Batches ==
    {assignCalls[i] : i \in 1..Len(assignCalls)}
    \cup {finalizeCalls[i] : i \in 1..Len(finalizeCalls)}

\* C11 (per-item failures never abort a batch): when the copy loop of an
\* assignment or of finalize has run, fs.copyFile was called for every
\* photo of the batch that has a path, whatever happened to the photos
\* before it, and every such photo is in exactly one of moved and errors.
C11_NoAbort ==
    \A call \in Batches :
        (call.phase = "replied" /\ ~call.error)
        => /\ call.attempted = SelectSeq(call.photos, HasPath)
           /\ Range(call.moved) \cup Range(call.errors) = Range(call.attempted)
           /\ Range(call.moved) \cap Range(call.errors) = {}

\* A batch in which a copy failed and a later photo was copied.
C11_Witness ==
    \E call \in Batches :
        /\ call.phase = "replied" /\ ~call.error
        /\ \E i, j \in 1..Len(call.photos) :
              /\ i < j
              /\ call.photos[i] \in Range(call.errors)
              /\ call.photos[j] \in Range(call.moved)

\* C12 (single writer): while an assignment has been started and has not
\* finished, no move to ungrouped is applied and no other assignment
\* starts.
C12_SingleWriter ==
    [][assignCalls # <<>> =>
          /\ groupsState' = groupsState
          /\ Len(assignCalls') <= Len(assignCalls)]_vars

Count(seq, p) == Cardinality({i \in 1..Len(seq) : seq[i] = p})

\* C13 (repeated move does not duplicate): when a move of a selection out
\* of a group has been applied, the selection and the edit mode are
\* cleared, and moving the same selection out of the same group again
\* would change neither the group nor ungrouped; no photo of the selection
\* is in ungrouped more often than it was in the group and in ungrouped
\* together.
C13_RepeatedMove ==
    [][groupsState' # groupsState =>
          LET k == editingGroupKey
              S == selectedGroupPhotos
              after == groupsState'[k].photos
          IN /\ selectedGroupPhotos' = <<>> /\ editingGroupKey' = Null
             /\ remaining(after, S) = after
             /\ moved(after, S) \o ungroupedPhotos' = ungroupedPhotos'
             /\ \A p \in Range(S) :
                   Count(ungroupedPhotos', p)
                       <= Count(groupsState[k].photos, p) + Count(ungroupedPhotos, p)]_vars

\* A move has been applied: a photo the run had put in a group is in
\* ungrouped, and the edit mode is over.
C13_Witness ==
    /\ ResultsShown /\ editingGroupKey = Null
    /\ \E p \in Range(ungroupedPhotos) :
          p \notin Range(photo_grouping(processingResults.payload).ungrouped_photos)

\* C14 (finalization only after a completed run, on that run's result):
\* finalize is invoked, and its copy handler runs, only on the result of a
\* completed run after which the operator has started no other run.
C14_FinalizeLatestRun ==
    [][/\ Len(finalizeCalls') > Len(finalizeCalls)
          => LET call == finalizeCalls'[Len(finalizeCalls')] IN
             call.run # 0 /\ call.run = started
       /\ \A i \in 1..Len(finalizeCalls) :
             (Len(finalizeCalls') = Len(finalizeCalls)
                /\ finalizeCalls[i].phase = "sent" /\ finalizeCalls'[i].phase = "replied")
             => finalizeCalls[i].run = started]_vars

\* C15: the progress messages of a run are the checkpoints its worker
\* emitted, in the order of emission, one message per checkpoint: on each
\* stream the messages sent are exactly the stream's checkpoints, also when
\* two checkpoints arrive in one chunk.
WithPercentage(event) == event.percentage # <<>>

WithoutPercentage(event) == event.percentage = <<>>

C15_NoCoalescing ==
    \A r \in Runs :
        /\ SelectSeq(runs[r].events, WithPercentage) = stderrCheckpoints(runs[r].errorData)
        /\ \A i \in 1..Len(runs[r].outputData) :
               runs[r].outputData[i] \notin {MarkerHead, MarkerTail}
           => SelectSeq(runs[r].events, WithoutPercentage)
                  = stdoutCheckpoints(runs[r].outputData)

\* C16: every checkpoint line a worker has completely written has had at
\* least one progress message sent for it, however the output was cut into
\* chunks, a cut inside the marker included.
CompleteLines(out) == out = <<>> \/ out[Len(out)] # MarkerHead

C16_AtLeastOnce ==
    \A r \in Runs :
        /\ Len(SelectSeq(runs[r].events, WithPercentage))
               >= Len(stderrCheckpoints(runs[r].errorData))
        /\ CompleteLines(runs[r].outputData)
           => Len(SelectSeq(runs[r].events, WithoutPercentage))
                  >= Len(stdoutCheckpoints(runs[r].outputData))

\* C17: while a run is running, and when it completes or fails, the
\* percentage the processing view holds never decreases, whatever progress
\* message arrives, a marker message without a percentage included.
C17_MonotonicPercentage ==
    [][(processingStage = "running" /\ processingStage' \in {"running", "completed", "error"})
       => progress' >= progress]_vars

\* C18: at most one worker process is alive at any moment; a start while a
\* run is running spawns no second worker.
Alive == {r \in Runs : runs[r].phase = "alive"}

C18_OneWorker == Cardinality(Alive) <= 1

\* C19: every record the engine has attributed is in exactly one place: a
\* record with a roster code in that participant's group; a record without
\* a code in the group of the nearest earlier record with a roster code,
\* or, without such a record, in ungrouped with the reason "no participant
\* context yet".  Markers at 1, 4, 7 of 9 photos give three groups of 3;
\* one marker at 4 gives photos 4-9 to its group and leaves 1-3 ungrouped.
Finished == engine.stage = "attributing" /\ engine.position = Len(engine.detections)

Markers(i) == {j \in 1..(i - 1) : engine.detections[j].detectedCode \in Roster}

Latest(S) == CHOOSE j \in S : \A k \in S : k <= j

RECURSIVE Grouped(_)
Grouped(keys) ==
    IF keys = {} THEN 0
    ELSE LET q == CHOOSE x \in keys : TRUE IN Len(engine.groups[q]) + Grouped(keys \ {q})

Placed == Grouped(Roster) + Len(engine.ungrouped)

C19_Attribution ==
    engine.stage = "attributing" =>
       /\ Placed = engine.position
       /\ \A i \in 1..engine.position :
             LET photo == engine.detections[i] IN
             /\ photo.detectedCode \in Roster
                => photo \in Range(engine.groups[photo.detectedCode])
             /\ (photo.detectedCode = NoCode /\ Markers(i) # {})
                => photo \in Range(engine.groups[engine.detections[Latest(Markers(i))].detectedCode])
             /\ (photo.detectedCode = NoCode /\ Markers(i) = {})
                => [photo |-> photo, reason |-> "no participant context yet"]
                      \in Range(engine.ungrouped)
       /\ (Finished /\ engine.detections = ScenarioA)
          => /\ \A q \in Roster : Len(engine.groups[q]) = 3
             /\ engine.ungrouped = <<>>
       /\ (Finished /\ engine.detections = ScenarioB)
          => /\ engine.groups["QR2"] = SubSeq(ScenarioB, 4, 9)
             /\ Len(engine.ungrouped) = 3
             /\ \A i \in 1..3 : engine.ungrouped[i].photo = ScenarioB[i]

C19_Witness ==
    /\ Finished
    /\ engine.detections = ScenarioB
    /\ Len(engine.groups["QR2"]) = 6

\* C20: a record whose code is not in the roster is in ungrouped with the
\* reason "qr code not in roster", and the groups, the cursor and the rest
\* of ungrouped are what the engine makes of the same records without it.
Unknown(photo) == photo.detectedCode \notin Roster \cup {NoCode}

Attributed == SubSeq(engine.detections, 1, engine.position)

C20_UnknownCode ==
    engine.stage = "attributing" =>
       \A i \in 1..engine.position :
          LET photo == engine.detections[i]
              without == correlate(EngineIdle, RemoveAt(Attributed, i))
              other(entry) == entry.photo # photo
          IN  Unknown(photo)
              => /\ [photo |-> photo, reason |-> "qr code not in roster"]
                       \in Range(engine.ungrouped)
                 /\ engine.groups = without.groups
                 /\ engine.cursor = without.cursor
                 /\ SelectSeq(engine.ungrouped, other) = without.ungrouped

C20_Witness ==
    /\ Finished
    /\ \E i \in 2..(Len(engine.detections) - 1) :
          /\ engine.detections[i - 1].detectedCode \in Roster
          /\ Unknown(engine.detections[i])
          /\ engine.detections[i + 1].detectedCode = NoCode
          /\ engine.detections[i + 1]
                \in Range(engine.groups[engine.detections[i - 1].detectedCode])

\* C21: every group present in the groups the operator sees holds at least
\* one photo, also after a move that selects all photos of a group.
C21_NoEmptyGroups ==
    \A k \in GroupKeys : groupsState[k].present => groupsState[k].photos # <<>>

\* C22: what the engine has attributed depends on the records and their
\* captureOrder only, not on the order in which they were handed over: the
\* groups and ungrouped are those of the records taken in capture order,
\* and inside every group and inside ungrouped captureOrder ascends.
InCaptureOrder(records) ==
    [i \in 1..Cardinality(records) |->
        CHOOSE r \in records :
            Cardinality({x \in records : x.captureOrder < r.captureOrder}) = i - 1]

Ascending(seq) ==
    \A i, j \in 1..Len(seq) : i < j => seq[i].captureOrder < seq[j].captureOrder

UngroupedPhotoRecords == [i \in 1..Len(engine.ungrouped) |-> engine.ungrouped[i].photo]

C22_OrderIndependence ==
    engine.stage = "attributing" =>
       LET canonical == correlate(EngineIdle,
                           SubSeq(InCaptureOrder(Range(engine.input)), 1, engine.position))
       IN  /\ engine.groups = canonical.groups
           /\ engine.ungrouped = canonical.ungrouped
           /\ \A q \in Roster : Ascending(engine.groups[q])
           /\ Ascending(UngroupedPhotoRecords)

C22_Witness ==
    /\ Finished
    /\ engine.input # engine.detections
    /\ engine.input # Reverse(engine.detections)
    /\ \E q \in Roster : Len(engine.groups[q]) >= 2
    /\ Len(engine.ungrouped) >= 2

\* C23: the counters the results view shows agree with the partition the
\* operator sees: ungrouped photos, groups, and total images, initially
\* and after each reconciliation operation.
\* The worker's counters of a payload, taken from its partition.
summaryOf(payload) ==
    LET grouping == photo_grouping(payload) IN
    [total_images |-> SumLen(grouping.groups, GroupKeys) + Len(grouping.ungrouped_photos),
     groups_created |-> Cardinality({k \in GroupKeys : grouping.groups[k].present}),
     ungrouped_photos |-> Len(grouping.ungrouped_photos)]

\* The summary cards: const { processing_summary } = processingResults.
SummaryCards == summaryOf(processingResults.payload)

C23_Counters ==
    ResultsShown =>
       /\ SummaryCards.ungrouped_photos = Len(ungroupedPhotos)
       /\ SummaryCards.groups_created = Cardinality({k \in GroupKeys : groupsState[k].present})
       /\ SummaryCards.total_images = SumLen(groupsState, GroupKeys) + Len(ungroupedPhotos)

\* C24: when a worker exited with code 0 and its standard output and
\* standard error together hold exactly one sentinel pair, enclosing a
\* well-formed payload, the reply is that payload, whatever log lines
\* surround the block and whichever stream carried it.
Carries(out, j) ==
    \E i \in 1..(Len(out) - 2) :
        out[i] = "==JSON_START==" /\ out[i + 1] = j /\ out[i + 2] = "==JSON_END=="

SentinelPairs(out) == Cardinality(Positions(out, "==JSON_START=="))

C24_SentinelExtraction ==
    \A r \in Runs, j \in Payloads :
        (/\ runs[r].phase = "replied"
         /\ runs[r].exitCode = 0
         /\ SentinelPairs(runs[r].outputData) + SentinelPairs(runs[r].errorData) = 1
         /\ Carries(runs[r].outputData, j) \/ Carries(runs[r].errorData, j))
        => /\ runs[r].reply.payload = j
           /\ runs[r].reply.success = success(j)

\* C25: a finalize call leaves groups and ungrouped as they are: when it
\* is sent, when the save handler has copied all, some or none of the
\* photos, and when its reply is taken.
C25_FinalizeFrame ==
    [][finalizeCalls' # finalizeCalls
       => groupsState' = groupsState /\ ungroupedPhotos' = ungroupedPhotos]_vars

\* A finalize call came back with one photo copied and another one failed,
\* and the list it was sent with is still the ungrouped list.
C25_Witness ==
    \E i \in 1..Len(finalizeCalls) :
        /\ finalizeCalls[i].phase = "replied"
        /\ finalizeCalls[i].moved # <<>>
        /\ finalizeCalls[i].errors # <<>>
        /\ ungroupedPhotos = finalizeCalls[i].photos

\* C26: after a move, ungrouped is the moved photos, in the order they had
\* inside the group, followed by the previous ungrouped list unchanged, and
\* the photos left in the group keep their relative order.
Index(seq, p) == CHOOSE i \in 1..Len(seq) : seq[i] = p

InOrderOf(part, whole) ==
    /\ Range(part) \subseteq Range(whole)
    /\ \A i, j \in 1..Len(part) : i < j => Index(whole, part[i]) < Index(whole, part[j])

C26_PlacesAndOrders ==
    [][groupsState' # groupsState
       => LET before == groupsState[editingGroupKey].photos
              after == groupsState'[editingGroupKey].photos
              n == Len(ungroupedPhotos') - Len(ungroupedPhotos)
              front == SubSeq(ungroupedPhotos', 1, n)
          IN  /\ n > 0
              /\ SubSeq(ungroupedPhotos', n + 1, Len(ungroupedPhotos')) = ungroupedPhotos
              /\ InOrderOf(front, before)
              /\ InOrderOf(after, before)
              /\ Len(front) + Len(after) = Len(before)
              /\ Range(front) \cap Range(after) = {}]_vars

\* Photos 1 and 2 were moved out of their group, in their order inside the
\* group, in front of photo 3, which had been moved before.
C26_Witness ==
    /\ processingResults.payload = "J1"
    /\ ungroupedPhotos = <<1, 2, 3>>
    /\ groupsState["g1"].photos = <<>>
    /\ groupsState["g2"].photos = <<>>
    /\ assignCalls = <<>>

\* C27: a move takes exactly the photos the operator selected: a photo of
\* the group that is not among the selected records stays in the group,
\* also when it shares a file name with a selected one or has no path.
C27_ExactlyTheNamed ==
    [][groupsState' # groupsState
       => \A p \in Range(groupsState[editingGroupKey].photos) :
             p \notin Range(selectedGroupPhotos)
             => p \in Range(groupsState'[editingGroupKey].photos)]_vars

\* C28: once the operator has reconciled the result on screen, the groups
\* and ungrouped stay as they are until another reconciliation operation
\* or a new result changes them; no other step, such as leaving the
\* results view, discards them.
Reconciled ==
    /\ ResultsShown
    /\ <<groupsState, ungroupedPhotos>>
          # <<photo_grouping(processingResults.payload).groups,
              photo_grouping(processingResults.payload).ungrouped_photos>>

MoveStep == editingGroupKey # Null /\ selectedGroupPhotos # <<>> /\ editingGroupKey' = Null

AssignmentStep == Len(assignCalls') < Len(assignCalls)

C28_EditsLast ==
    [][(Reconciled /\ processingResults' = processingResults /\ ~MoveStep /\ ~AssignmentStep)
       => groupsState' = groupsState /\ ungroupedPhotos' = ungroupedPhotos]_vars

\* C29: a move changes the photo list of the edited group and the
\* ungrouped list only: every other group is as before, the edited group
\* is still there, and no copy request is sent or answered.
C29_MoveFrame ==
    [][groupsState' # groupsState
       => /\ \A k \in GroupKeys \ {editingGroupKey} : groupsState'[k] = groupsState[k]
          /\ groupsState'[editingGroupKey].present
          /\ assignCalls' = assignCalls
          /\ finalizeCalls' = finalizeCalls]_vars

\* Photo 1 was moved out of g1 while g2 holds photo 3.
C29_Witness ==
    /\ processingResults.payload = "J1"
    /\ groupsState["g1"].photos = <<2>>
    /\ groupsState["g2"].photos = <<3>>
    /\ ungroupedPhotos = <<1>>

\* C30: within one copy batch, two distinct source photos that are both
\* reported as copied never have the same destination path.
C30_NoOverwrite ==
    \A call \in Batches :
        call.phase = "replied"
        => \A p, q \in Range(call.moved) :
              file_path(p) # file_path(q) => destPath(p) # destPath(q)

====
